---- MODULE Spec2Model ----
(***************************************************************************)
(* Model of the chip input of frontend/src/components/inputs/Chips.tsx.    *)
(*                                                                         *)
(* A text is a sequence of one-character strings.  An array of the program *)
(* is an object with identity: `heap` maps a reference (1..Len(heap)) to   *)
(* the contents of the array it names, so that "a new array" and "the same *)
(* array, changed in place" are different states.                          *)
(***************************************************************************)
EXTENDS Integers, Sequences, FiniteSets, TLC

\* ---------------------------------------------------------------- bounds
\* longest pending text the model types into the input
MaxText == 2
\* number of arrays the model lets the program allocate (caller's included)
MaxHeap == 4
\* largest explicit index handed to removeChip when it is called directly
MaxIdx == 3

\* ------------------------------------------------------------- constants
SplitKeys == {"Tab", "Enter", " ", ",", ";"}

\* keys that insert themselves into the text control when not suppressed
CharKeys == {"a", " ", ",", ";"}

Keys == SplitKeys \cup CharKeys \cup {"Backspace"}

\* the arrays the caller owns and may hand over as defaultValue
CallerArrays == << << <<"a">>, <<"a", "a">> >>, << <<"a">> >> >>

\* an optional value is the empty set (undefined) or a singleton
Undefined == {}

Some(x) == {x}

\* JavaScript's  x ?? d
Nullish(x, d) == IF x = Undefined THEN d ELSE CHOOSE v \in x : TRUE

NoKey == [key |-> "none", before |-> <<>>]

VARIABLES
  chips,         \* reference of the array held by the useState cell
  heap,          \* contents of every array allocated so far
  notified,      \* references passed to onChange, in call order
  onChange,      \* whether the caller supplied the onChange prop
  disabled,      \* the disabled prop
  defaultValue,  \* the defaultValue prop: Undefined or Some(reference)
  value,         \* input.current.value, the pending text
  down,          \* the key held down in the control and the text before it
  lastEv,        \* the event handled last, with the state it found
  redirect       \* what RootRedirect rendered last: none or one Redirect

vars == <<chips, heap, notified, onChange, disabled, defaultValue, value,
          down, lastEv, redirect>>

\* -------------------------------------------------------------- helpers
\* Array.prototype.splice(index, 1) on a copy: the elements left
Splice(cp, index) ==
  LET len   == Len(cp)
      start == IF index < 0
                 THEN (IF len + index < 0 THEN 0 ELSE len + index)
                 ELSE (IF index > len THEN len ELSE index)
  IN  IF start >= len
        THEN cp
        ELSE [i \in 1..(len - 1) |-> IF i <= start THEN cp[i] ELSE cp[i + 1]]

\* the part of the state addChip and removeChip work on
St == [chips |-> chips, heap |-> heap, notified |-> notified]

\* allocate newChips, call onChange when present, return it as the new state
Replace(st, newChips) ==
  LET ref == Len(st.heap) + 1
  IN  [chips    |-> ref,
       heap     |-> Append(st.heap, newChips),
       notified |-> IF onChange THEN Append(st.notified, ref)
                                ELSE st.notified]

\* mutant: the new array is installed but onChange is not called
addChip_silent(st, v) ==
  [chips    |-> Len(st.heap) + 1,
   heap     |-> Append(st.heap, Append(st.heap[st.chips], v)),
   notified |-> st.notified]

\* mutant: a value already in the list is not added again
addChip_dedup(st, v) ==
  IF \E i \in DOMAIN st.heap[st.chips] : st.heap[st.chips][i] = v
    THEN st
    ELSE Replace(st, Append(st.heap[st.chips], v))

\* mutant: the value is pushed onto the array the state cell holds
addChip_inPlace(st, v) ==
  [chips    |-> st.chips,
   heap     |-> [st.heap EXCEPT ![st.chips] = Append(@, v)],
   notified |-> IF onChange THEN Append(st.notified, st.chips)
                            ELSE st.notified]

addChip(st, v) == Replace(st, Append(st.heap[st.chips], v))

\* mutant: the guard on "no last element" is missing
removeChip_noGuard(st, idx) ==
  LET cp    == st.heap[st.chips]
      index == Nullish(idx, Len(cp) - 1)
  IN  Replace(st, Splice(cp, index))

\* mutant: an omitted index stands for the first element
removeChip_first(st, idx) ==
  LET cp    == st.heap[st.chips]
      index == Nullish(idx, IF Len(cp) = 0 THEN -1 ELSE 0)
  IN  IF index # -1
        THEN Replace(st, Splice(cp, index))
        ELSE st

\* mutant: the index is ignored and the last element removed
removeChip_last(st, idx) ==
  LET cp    == st.heap[st.chips]
      index == Len(cp) - 1
  IN  IF index # -1
        THEN Replace(st, Splice(cp, index))
        ELSE st

removeChip(st, idx) ==
  LET cp    == st.heap[st.chips]
      index == Nullish(idx, Len(cp) - 1)
  IN  IF index # -1
        THEN Replace(st, Splice(cp, index))
        ELSE st

\* what the text control does with a key press that is not suppressed
DefaultKeyDown(k, v) ==
  IF k \in CharKeys THEN Append(v, k)
  ELSE IF k = "Backspace" /\ v # <<>> THEN SubSeq(v, 1, Len(v) - 1)
  ELSE v

\* sinceCommit: a text was committed and no character key pressed since
Ev(type, key, idx) ==
  [type |-> type, key |-> key, idx |-> idx, value |-> value,
   before |-> down.before, chips |-> chips, calls |-> Len(notified),
   sinceCommit |->
     IF type \in {"keyup", "blur"}
       THEN (IF value # <<>> /\ (type = "blur" \/ key \in SplitKeys)
               THEN TRUE
               ELSE lastEv.sinceCommit)
       ELSE IF type = "keydown" /\ key \in CharKeys
         THEN FALSE
         ELSE lastEv.sinceCommit]

Apply(st) ==
  /\ chips' = st.chips
  /\ heap' = st.heap
  /\ notified' = st.notified

\* ----------------------------------------------------------------- Init
Init ==
  /\ onChange \in BOOLEAN
  /\ disabled \in BOOLEAN
  /\ defaultValue \in {Undefined} \cup {Some(r) : r \in DOMAIN CallerArrays}
  /\ heap = IF defaultValue = Undefined
              THEN Append(CallerArrays, <<>>)
              ELSE CallerArrays
  /\ chips = Nullish(defaultValue, Len(CallerArrays) + 1)
  /\ notified = <<>>
  /\ value = <<>>
  /\ down = NoKey
  /\ lastEv = [type |-> "init", key |-> "none", idx |-> Undefined,
               value |-> <<>>, before |-> <<>>, chips |-> chips, calls |-> 0,
               sinceCommit |-> FALSE]
  /\ redirect = <<>>

\* -------------------------------------------------------------- actions
\* A disabled text control takes no key press (<input disabled={disabled}>);
\* whether a release or a blur still reaches a control that was disabled
\* while it had the focus is left to the browser, and the handlers do not
\* test disabled, so onKeyUp and onBlur stay enabled.

\* mutant: the press is never suppressed
onKeyDown_noPrevent(k) ==
  /\ down = NoKey
  /\ ~disabled
  /\ k \notin CharKeys \/ Len(value) < MaxText
  /\ value' = DefaultKeyDown(k, value)
  /\ down' = [key |-> k, before |-> value]
  /\ lastEv' = Ev("keydown", k, Undefined)
  /\ UNCHANGED <<chips, heap, notified, onChange, disabled, defaultValue,
               redirect>>

onKeyDown(k) ==
  /\ down = NoKey
  /\ ~disabled
  /\ LET prevented == k \in SplitKeys /\ Len(value) # 0
     IN  /\ prevented \/ k \notin CharKeys \/ Len(value) < MaxText
         /\ value' = IF prevented THEN value ELSE DefaultKeyDown(k, value)
  /\ down' = [key |-> k, before |-> value]
  /\ lastEv' = Ev("keydown", k, Undefined)
  /\ UNCHANGED <<chips, heap, notified, onChange, disabled, defaultValue,
               redirect>>

\* mutant: a delimiter release commits the text even when it is empty
onKeyUp_noLengthTest(k) ==
  /\ down.key = k
  /\ Len(heap) < MaxHeap
  /\ IF k \in SplitKeys
       THEN Apply(addChip(St, value)) /\ value' = <<>>
       ELSE IF k = "Backspace" /\ Len(value) = 0
         THEN Apply(removeChip(St, Undefined)) /\ value' = value
         ELSE UNCHANGED <<chips, heap, notified, value>>
  /\ down' = NoKey
  /\ lastEv' = Ev("keyup", k, Undefined)
  /\ UNCHANGED <<onChange, disabled, defaultValue, redirect>>

\* mutant: the release commits the text but does not clear the input
onKeyUp_noClear(k) ==
  /\ down.key = k
  /\ Len(heap) < MaxHeap
  /\ IF k \in SplitKeys /\ Len(value) # 0
       THEN Apply(addChip(St, value)) /\ value' = value
       ELSE IF k = "Backspace" /\ Len(value) = 0
         THEN Apply(removeChip(St, Undefined)) /\ value' = value
         ELSE UNCHANGED <<chips, heap, notified, value>>
  /\ down' = NoKey
  /\ lastEv' = Ev("keyup", k, Undefined)
  /\ UNCHANGED <<onChange, disabled, defaultValue, redirect>>

\* mutant: a Backspace release removes a token whatever the text is
onKeyUp_anyBackspace(k) ==
  /\ down.key = k
  /\ Len(heap) < MaxHeap
  /\ IF k \in SplitKeys /\ Len(value) # 0
       THEN Apply(addChip(St, value)) /\ value' = <<>>
       ELSE IF k = "Backspace"
         THEN Apply(removeChip(St, Undefined)) /\ value' = value
         ELSE UNCHANGED <<chips, heap, notified, value>>
  /\ down' = NoKey
  /\ lastEv' = Ev("keyup", k, Undefined)
  /\ UNCHANGED <<onChange, disabled, defaultValue, redirect>>

onKeyUp(k) ==
  /\ down.key = k
  /\ Len(heap) < MaxHeap
  /\ IF k \in SplitKeys /\ Len(value) # 0
       THEN Apply(addChip(St, value)) /\ value' = <<>>
       ELSE IF k = "Backspace" /\ Len(value) = 0
         THEN Apply(removeChip(St, Undefined)) /\ value' = value
         ELSE UNCHANGED <<chips, heap, notified, value>>
  /\ down' = NoKey
  /\ lastEv' = Ev("keyup", k, Undefined)
  /\ UNCHANGED <<onChange, disabled, defaultValue, redirect>>

\* mutant: the text is committed but the input is not cleared
onBlur_noClear ==
  /\ Len(heap) < MaxHeap
  /\ IF Len(value) # 0
       THEN Apply(addChip(St, value)) /\ value' = value
       ELSE UNCHANGED <<chips, heap, notified, value>>
  /\ down' = NoKey
  /\ lastEv' = Ev("blur", "none", Undefined)
  /\ UNCHANGED <<onChange, disabled, defaultValue, redirect>>

onBlur ==
  /\ Len(heap) < MaxHeap
  /\ IF Len(value) # 0
       THEN Apply(addChip(St, value)) /\ value' = <<>>
       ELSE UNCHANGED <<chips, heap, notified, value>>
  /\ down' = NoKey
  /\ lastEv' = Ev("blur", "none", Undefined)
  /\ UNCHANGED <<onChange, disabled, defaultValue, redirect>>

\* mutant: the click handler does not test disabled
onClick_noDisabled(idx) ==
  /\ Len(heap) < MaxHeap
  /\ idx \in 0..(Len(heap[chips]) - 1)
  /\ Apply(removeChip(St, Some(idx)))
  /\ lastEv' = Ev("click", "none", Some(idx))
  /\ UNCHANGED <<onChange, disabled, defaultValue, value, down, redirect>>

onClick(idx) ==
  /\ Len(heap) < MaxHeap
  /\ idx \in 0..(Len(heap[chips]) - 1)
  /\ IF ~disabled
       THEN Apply(removeChip(St, Some(idx)))
       ELSE UNCHANGED <<chips, heap, notified>>
  /\ lastEv' = Ev("click", "none", Some(idx))
  /\ UNCHANGED <<onChange, disabled, defaultValue, value, down, redirect>>

\* the parent renders the component again with another disabled prop
SetDisabled ==
  /\ disabled' = ~disabled
  /\ lastEv' = Ev("setDisabled", "none", Undefined)
  /\ UNCHANGED <<chips, heap, notified, onChange, defaultValue, value, down,
               redirect>>

\* mutant: the state follows the prop
SetDefaultValue_resync(dv) ==
  /\ dv # defaultValue
  /\ defaultValue' = dv
  /\ chips' = Nullish(dv, chips)
  /\ lastEv' = Ev("setDefaultValue", "none", Undefined)
  /\ UNCHANGED <<heap, notified, onChange, disabled, value, down, redirect>>

\* the parent renders the component again with another defaultValue prop
SetDefaultValue(dv) ==
  /\ dv # defaultValue
  /\ defaultValue' = dv
  /\ lastEv' = Ev("setDefaultValue", "none", Undefined)
  /\ UNCHANGED <<chips, heap, notified, onChange, disabled, value, down,
               redirect>>

\* removeChip called with an index of the caller's choice
RemoveToken(idx) ==
  /\ Len(heap) < MaxHeap
  /\ Apply(removeChip(St, idx))
  /\ lastEv' = Ev("removeToken", "none", idx)
  /\ UNCHANGED <<onChange, disabled, defaultValue, value, down, redirect>>

Next ==
  \/ \E k \in Keys : onKeyDown(k)
  \/ \E k \in Keys : onKeyUp(k)
  \/ onBlur
  \/ \E idx \in 0..MaxIdx : onClick(idx)
  \/ SetDisabled
  \/ \E dv \in {Undefined} \cup {Some(r) : r \in DOMAIN CallerArrays} :
       SetDefaultValue(dv)

Spec == Init /\ [][Next]_vars

NextOps ==
  \/ Next
  \/ \E idx \in {Undefined} \cup {Some(i) : i \in 0..MaxIdx} : RemoveToken(idx)

SpecOps == Init /\ [][NextOps]_vars

\* -------------------------------------------------------- RootRedirect
SeriesPath == <<"/", "s", "e", "r", "i", "e", "s">>

MoviesPath == <<"m", "o", "v", "i", "e", "s">>

SettingsPath == <<"/", "s", "e", "t", "t", "i", "n", "g", "s">>

\* the path RootRedirect hands to Redirect for the two hook results
RootRedirectPath(sonarr, radarr) ==
  IF sonarr THEN SeriesPath
  ELSE IF radarr THEN MoviesPath
  ELSE SettingsPath

\* RootRedirect renders with the values its two hooks return
RootRedirect(sonarr, radarr) ==
  /\ redirect' = << [sonarr |-> sonarr, radarr |-> radarr,
                     to |-> RootRedirectPath(sonarr, radarr)] >>
  /\ UNCHANGED <<chips, heap, notified, onChange, disabled, defaultValue,
                 value, down, lastEv>>

NextApp ==
  \/ Next
  \/ \E sonarr \in BOOLEAN, radarr \in BOOLEAN : RootRedirect(sonarr, radarr)

SpecApp == Init /\ [][NextApp]_vars

\* ------------------------------------------------------------ properties
\* the TokenList: the contents of the array the state cell holds
TokenList == heap[chips]

\* the step called onChange exactly once, with the array now in the state cell
ObservedOnce == notified' = Append(notified, chips')

\* the step did not call onChange
NotObserved == notified' = notified

\* the step left the state cell, every array and the observer alone
Untouched == chips' = chips /\ heap' = heap /\ notified' = notified

\* the step was a release of a delimiter key with non-empty pending text
CommitRelease ==
  /\ lastEv'.type = "keyup"
  /\ lastEv'.key \in SplitKeys
  /\ lastEv'.value # <<>>

\* seq with the element at 0-based position i deleted
Without(seq, i) ==
  [j \in 1..(Len(seq) - 1) |-> IF j <= i THEN seq[j] ELSE seq[j + 1]]

\* C1: a release of a delimiter key with non-empty pending text s makes the
\* TokenList the old list followed by s, duplicates included, and calls the
\* observer exactly once with the new list.
C1_DelimiterCommit ==
  [][CommitRelease =>
       /\ lastEv'.value = value
       /\ TokenList' = Append(TokenList, value)
       /\ (onChange => ObservedOnce)]_vars

C1_Witness ==
  /\ lastEv.type = "keyup"
  /\ lastEv.key \in SplitKeys
  /\ lastEv.value # <<>>
  /\ onChange
  /\ Len(notified) = lastEv.calls + 1
  /\ \E i \in DOMAIN heap[lastEv.chips] : heap[lastEv.chips][i] = lastEv.value

\* C2: in every step of every event sequence the length of the TokenList
\* changes by 0, +1 or -1, and the observer is called in the step exactly
\* when the TokenList changed in it, once, with the new TokenList.
C2_StepInvariant ==
  [][/\ Len(TokenList') - Len(TokenList) \in {-1, 0, 1}
     /\ onChange =>
          /\ (TokenList' # TokenList) <=> ~NotObserved
          /\ ~NotObserved => ObservedOnce]_vars

C2_Witness ==
  /\ onChange
  /\ Len(notified) = 2
  /\ Len(heap[notified[1]]) = Len(heap[lastEv.chips])
  /\ Len(heap[notified[2]]) = Len(heap[notified[1]]) - 1
  /\ heap[notified[2]] = TokenList

\* C3: removeToken(index) with an index that addresses no token (index at or
\* beyond the length, or no last element) changes nothing, replaces nothing
\* and does not call the observer.
C3_OutOfRangeNoOp ==
  [][(/\ lastEv'.type = "removeToken"
      /\ LET index == Nullish(lastEv'.idx, Len(TokenList) - 1)
         IN  index < 0 \/ index >= Len(TokenList)) => Untouched]_vars

\* C4: a Backspace release with empty pending text and a non-empty TokenList
\* removes the last token and no other, and calls the observer once with the
\* shortened list.
C4_BackspaceRemovesLast ==
  [][(/\ lastEv'.type = "keyup"
      /\ lastEv'.key = "Backspace"
      /\ lastEv'.value = <<>>
      /\ TokenList # <<>>) =>
       /\ TokenList' = SubSeq(TokenList, 1, Len(TokenList) - 1)
       /\ (onChange => ObservedOnce)]_vars

C4_Witness ==
  /\ lastEv.type = "keyup"
  /\ lastEv.key = "Backspace"
  /\ lastEv.value = <<>>
  /\ onChange
  /\ Len(heap[lastEv.chips]) >= 2
  /\ heap[lastEv.chips][1] # heap[lastEv.chips][2]
  /\ Len(notified) = lastEv.calls + 1

\* C5: a Backspace release with empty pending text and an empty TokenList
\* is a no-op: the list stays the same empty array and the observer is not
\* called.
C5_BackspaceOnEmpty ==
  [][(/\ lastEv'.type = "keyup"
      /\ lastEv'.key = "Backspace"
      /\ lastEv'.value = <<>>
      /\ TokenList = <<>>) => Untouched]_vars

C5_Witness ==
  /\ lastEv.type = "keyup"
  /\ lastEv.key = "Backspace"
  /\ lastEv.value = <<>>
  /\ heap[lastEv.chips] = <<>>
  /\ onChange

\* C6: a blur with non-empty pending text s appends s as the last token and
\* calls the observer once with the new list, as a delimiter commit does,
\* and after any blur the pending text is empty.
C6_BlurCommits ==
  [][lastEv'.type = "blur" =>
       /\ value' = <<>>
       /\ value # <<>> =>
            /\ lastEv'.value = value
            /\ TokenList' = Append(TokenList, value)
            /\ (onChange => ObservedOnce)]_vars

C6_Witness ==
  /\ lastEv.type = "blur"
  /\ lastEv.value # <<>>
  /\ onChange
  /\ Len(notified) = lastEv.calls + 1
  /\ TokenList[Len(TokenList)] = lastEv.value

\* C7: with disabled false, a click on the tag at position i removes the
\* token at position i and no other; the rest keep value and order, and the
\* observer is called once with the new list.
C7_ClickRemovesAt ==
  [][(lastEv'.type = "click" /\ ~disabled) =>
       /\ TokenList' = Without(TokenList, Nullish(lastEv'.idx, -1))
       /\ (onChange => ObservedOnce)]_vars

C7_Witness ==
  /\ lastEv.type = "click"
  /\ ~disabled
  /\ onChange
  /\ Len(heap[lastEv.chips]) >= 2
  /\ Nullish(lastEv.idx, -1) < Len(heap[lastEv.chips]) - 1
  /\ heap[lastEv.chips][1] # heap[lastEv.chips][2]
  /\ Len(notified) = lastEv.calls + 1

\* C8: with disabled true, a click on a tag removes nothing: the TokenList
\* is unchanged and the observer is not called.
C8_DisabledClick ==
  [][(lastEv'.type = "click" /\ disabled) => Untouched]_vars

C8_Witness ==
  /\ lastEv.type = "click"
  /\ disabled
  /\ onChange
  /\ heap[lastEv.chips] # <<>>

C10_DefaultValueOnce ==
  /\ [](lastEv.type = "init" =>
          /\ notified = <<>>
          /\ TokenList = IF defaultValue = Undefined
                           THEN <<>>
                           ELSE heap[Nullish(defaultValue, 0)])
  /\ [][defaultValue' # defaultValue => Untouched]_vars

C10_Witness ==
  /\ lastEv.type = "setDefaultValue"
  /\ defaultValue # Undefined
  /\ heap[Nullish(defaultValue, 0)] # TokenList
  /\ Len(notified) > 0

\* C11: no empty token is ever committed: the caller's arrays holding no
\* empty string, the TokenList never holds one, whatever events arrive.
C11_NoEmptyToken ==
  (\A r \in DOMAIN CallerArrays : \A i \in DOMAIN CallerArrays[r] :
      CallerArrays[r][i] # <<>>)
    => \A i \in DOMAIN TokenList : TokenList[i] # <<>>

\* a delimiter release that found the input empty, after a text was committed
C11_Witness ==
  /\ lastEv.type = "keyup"
  /\ lastEv.key \in SplitKeys
  /\ lastEv.value = <<>>
  /\ chips = lastEv.chips
  /\ Len(notified) > 0
  /\ notified[Len(notified)] = chips

\* C12: a pending text is committed at most once: after a commit by a
\* delimiter release or a blur the pending text is empty, and a blur or a
\* delimiter release that follows with no character key pressed in between
\* adds no token and does not call the observer.
C12_CommitOnce ==
  /\ [](lastEv.sinceCommit => value = <<>>)
  /\ [][(/\ lastEv.sinceCommit
         /\ \/ lastEv'.type = "blur"
            \/ lastEv'.type = "keyup" /\ lastEv'.key \in SplitKeys) =>
          Untouched]_vars

\* a blur that found the input empty after the one commit made so far
C12_Witness ==
  /\ lastEv.type = "blur"
  /\ lastEv.sinceCommit
  /\ lastEv.value = <<>>
  /\ onChange
  /\ Len(notified) = 1
  /\ chips = notified[1]
  /\ chips = lastEv.chips
  /\ \E r \in DOMAIN CallerArrays :
       SubSeq(TokenList, 1, Len(TokenList) - 1) = CallerArrays[r]

\* C13: a release that matches neither guard (a key that is neither a
\* delimiter nor Backspace, a delimiter with empty pending text, Backspace
\* with non-empty pending text) changes neither the TokenList nor the
\* pending text and does not call the observer.
C13_PassThrough ==
  [][(/\ lastEv'.type = "keyup"
      /\ ~(lastEv'.key \in SplitKeys /\ value # <<>>)
      /\ ~(lastEv'.key = "Backspace" /\ value = <<>>)) =>
       Untouched /\ value' = value]_vars

C13_Witness ==
  /\ lastEv.type = "keyup"
  /\ lastEv.key = "Backspace"
  /\ lastEv.value # <<>>
  /\ value = lastEv.value
  /\ TokenList # <<>>
  /\ onChange

\* C14: a mutation installs a fresh array and changes no existing one: the
\* caller's defaultValue array and every array handed to the observer keep
\* their contents.
C14_NoInPlaceMutation ==
  [][/\ \A r \in DOMAIN heap : r \in DOMAIN heap' /\ heap'[r] = heap[r]
     /\ TokenList' # TokenList => chips' \notin DOMAIN heap]_vars

C14_Witness ==
  /\ defaultValue # Undefined
  /\ onChange
  /\ Len(notified) = 2
  /\ heap[notified[1]] # heap[notified[2]]
  /\ heap[notified[1]] # heap[Nullish(defaultValue, 0)]
  /\ chips = notified[2]

\* C15: a Backspace press and release that begins with non-empty pending
\* text only edits the text and removes no token, also when the text had one
\* character and is empty by the time of the release.
C15_BackspaceEditsOnly ==
  [][(/\ lastEv'.type = "keyup"
      /\ lastEv'.key = "Backspace"
      /\ lastEv'.before # <<>>) => Untouched]_vars

\* C16: a press and release of a delimiter key that begins with empty
\* pending text adds no token and calls no observer; no token made of the
\* delimiter character itself is committed.
C16_DelimiterOnEmpty ==
  [][(/\ lastEv'.type = "keyup"
      /\ lastEv'.key \in SplitKeys
      /\ lastEv'.before = <<>>) => Untouched]_vars

\* C17: while disabled is true no event changes the TokenList or calls the
\* observer, a blur or delimiter release with text typed earlier included.
C17_DisabledFrozen ==
  [][disabled => Untouched]_vars

\* C18: for every combination of the two flags RootRedirect redirects to
\* one path that begins with "/": the series page when sonarr is enabled,
\* otherwise the movies page when radarr is enabled, otherwise the settings
\* page.
C18_RootRedirectAbsolute ==
  \A i \in DOMAIN redirect :
    /\ redirect[i].to[1] = "/"
    /\ redirect[i].to =
         IF redirect[i].sonarr
           THEN <<"/", "s", "e", "r", "i", "e", "s">>
           ELSE IF redirect[i].radarr
             THEN <<"/", "m", "o", "v", "i", "e", "s">>
             ELSE <<"/", "s", "e", "t", "t", "i", "n", "g", "s">>

TypeOK ==
  /\ chips \in DOMAIN heap
  /\ Len(heap) <= MaxHeap
  /\ Len(value) <= MaxText
====
